---- MODULE Spec2Model ----
(***************************************************************************)
(* The MQTT integration backend of the gateway bridge                      *)
(* (src/internal/backend/basicstation/gateway.go, package mqtt): the       *)
(* Backend's reader/writer lock, its connection handle, its closed flag    *)
(* and its gateway registry, driven by the goroutines that share them:     *)
(* Start/connectLoop/reconnectLoop, Stop, SetGatewaySubscription callers,  *)
(* the paho client's onConnected callbacks and PublishEvent callers; and    *)
(* the handling of a downlink frame that arrives on a command topic, and   *)
(* handleCommand's choice of a handler from the topic.  The last section   *)
(* is the gateway-link registry of package basicstation (type gateways):   *)
(* get, set and remove under its own lock, with the subscribe callback.    *)
(*                                                                         *)
(* The paho client and the broker are the environment.  A client handle    *)
(* is "new" (created, never connected), "up" (connected), "lost"           *)
(* (connection lost, the client's automatic reconnect is pending) or       *)
(* "closed" (a failed Connect, or Disconnect was called: final).           *)
(* Subscribe and Unsubscribe succeed only on an "up" handle, and may be    *)
(* refused by the broker even then.  A closed handle that b.conn no longer *)
(* holds can do nothing more and is forgotten; a handle that b.conn no     *)
(* longer holds and that is still live is counted in orphans.              *)
(***************************************************************************)
EXTENDS Naturals, FiniteSets, Sequences, TLC

\* ---------------------------------------------------------------- bounds
\* failing connect() calls the environment injects into one connectLoop
MaxConnFail == 2
\* the same, in the runs with SetGatewaySubscription callers
CoreConnFail == 1
\* the failure counters of one call saturate at this value
MaxRetry == 1
\* mqttConnectCounter, mqttDisconnectCounter and mqttReconnectCounter saturate here
MaxMetric == 1
\* onConnected goroutines the client has started that have not run yet, beyond which
\* they are not counted: one that has not run yet re-subscribes, when it runs, the
\* registry of that time, as each of them would
MaxSpawned == 1
\* PublishEvent calls over the whole run
MaxPublish == 2
\* items of a DownlinkFrame that arrives
MaxItems == 1
\* messages handleCommand receives over the whole run
MaxCommands == 2
\* set and remove calls on the gateway-link registry over the whole run
MaxLinkCalls == 3

\* ------------------------------------------------------------- the actors
Gateways == {"g1", "g2"}
Setters == {"s1", "s2"}
Slots == {"o1"}
NoGateway == "none"
Events == {"up", "stats"}
BrokerErrors == {"e1", "e2"}
Kinds == {"down", "config", "exec", "raw"}
LinkCallers == {"w1", "w2"}

VARIABLES
  terminateOnConnectError, \* Backend.terminateOnConnectError
  rotate,                  \* b.auth.ReconnectAfter() > 0
  conn,                    \* Backend.conn: "nil", or the state of the client handle it holds
  subs,                    \* the broker's subscriptions of the session of b.conn
  orphans,                 \* live client handles that b.conn no longer holds
  closed,                  \* Backend.closed
  gateways,                \* Backend.gateways: the registry
  writer,                  \* holder of the Backend's lock in exclusive mode
  readers,                 \* holders of the Backend's lock in shared mode
  cm,                      \* the goroutine running Start and then reconnectLoop
  started,                 \* Start has returned
  terminated,              \* log.Fatal ended the process
  stoppc,                  \* the goroutine calling Stop
  setter,                  \* the goroutines calling SetGatewaySubscription
  lastSet,                 \* arguments of the SetGatewaySubscription call that returned last
  spawned,                 \* onConnected goroutines the client started that have not run yet
  oc,                      \* the onConnected invocations that are running
  pub,                     \* the goroutine calling PublishEvent
  eventCounter,            \* mqttEventCounter per event kind
  metric,                  \* mqttConnectCounter, mqttDisconnectCounter, mqttReconnectCounter
  failLimit,               \* failing connect() calls the environment injects into one connectLoop
  metricLimit,             \* the value at which the three metrics stop counting
  downlinkFrameFunc,       \* Backend.downlinkFrameFunc is not nil
  dl,                      \* the last handleDownlinkFrame call: its message and what it did
  gatewayConfigurationFunc,      \* Backend.gatewayConfigurationFunc is not nil
  gatewayCommandExecRequestFunc, \* Backend.gatewayCommandExecRequestFunc is not nil
  rawPacketForwarderCommandFunc, \* Backend.rawPacketForwarderCommandFunc is not nil
  commandCounter,          \* mqttCommandCounter per command kind
  cmd,                     \* the last handleCommand call: its message and what it did
  linkGateways,            \* gateways.gateways of package basicstation: the identities it holds
  subscribeEventFunc,      \* gateways.subscribeEventFunc is not nil
  linkWriter,              \* holder of the gateways lock in exclusive mode
  linkCaller,              \* the goroutines calling get, set and remove
  notified,                \* the events.Subscribe values handed to subscribeEventFunc, in order
  mutated,                 \* the writes to gateways.gateways, in order
  linkCalls                \* set and remove calls started

vars == <<terminateOnConnectError, rotate, conn, subs, orphans, closed, gateways, writer,
          readers, cm, started, terminated, stoppc, setter, lastSet, spawned, oc, pub,
          eventCounter, metric, failLimit, metricLimit, downlinkFrameFunc, dl,
          gatewayConfigurationFunc, gatewayCommandExecRequestFunc,
          rawPacketForwarderCommandFunc, commandCounter, cmd, linkGateways,
          subscribeEventFunc, linkWriter, linkCaller, notified, mutated, linkCalls>>

configVars == <<terminateOnConnectError, rotate, failLimit, metricLimit>>
lockVars == <<writer, readers>>
clientVars == <<conn, subs, orphans>>
stateVars == <<closed, gateways>>
pubVars == <<pub, eventCounter>>

\* ----------------------------------------------------------- the RWMutex
\* Lock() returns when nobody holds the lock in either mode.
CanLockMut == TRUE
CanLock == writer = "none" /\ readers = {}
\* RLock() returns when nobody holds the lock in exclusive mode.
CanRLock == writer = "none"

Sat(n) == IF n < MaxRetry THEN n + 1 ELSE n
Inc(n) == IF n < metricLimit THEN n + 1 ELSE n
Spawn(n) == IF n < MaxSpawned THEN n + 1 ELSE n

\* ------------------------------------------------------- the paho client
Live(c) == c \in {"up", "lost"}

\* client.Disconnect(250): ends a connected or reconnecting client for good;
\* on a client that is not connected it does nothing.
ClientDisconnect ==
  IF Live(conn)
    THEN conn' = "closed" /\ subs' = {}
    ELSE UNCHANGED <<conn, subs>>

IdleSetter == [pc |-> "idle", want |-> FALSE, gw |-> NoGateway, calls |-> 0, fails |-> 0,
               noop |-> FALSE, entry |-> {}, prev |-> <<>>]
IdleSlot == [pc |-> "idle", atFire |-> {}, atLock |-> {}, todo |-> {}, cur |-> NoGateway,
             tried |-> {}, okset |-> {}, attempts |-> 0, fails |-> 0]
IdlePub == [pc |-> "idle", event |-> "up", calls |-> 0, err |-> "nil", ret |-> "nil"]

IdleLink == [pc |-> "idle", id |-> NoGateway, err |-> "none"]

\* NewBackend: no connection yet, an empty registry, not closed
Boot ==
  /\ conn = "nil"
  /\ subs = {}
  /\ orphans = 0
  /\ closed = FALSE
  /\ gateways = {}
  /\ writer = "none"
  /\ readers = {}
  /\ cm = [pc |-> "connect", calls |-> 0, fails |-> 0, err |-> "nil"]
  /\ started = FALSE
  /\ terminated = FALSE
  /\ stoppc = "idle"
  /\ setter = [t \in Setters |-> IdleSetter]
  /\ lastSet = <<>>
  /\ spawned = 0
  /\ oc = [s \in Slots |-> IdleSlot]
  /\ pub = IdlePub
  /\ eventCounter = [e \in Events |-> 0]
  /\ metric = [connect |-> 0, disconnect |-> 0, reconnect |-> 0]
  /\ downlinkFrameFunc = FALSE
  /\ dl = [payload |-> <<>>, outcome |-> "none", handed |-> <<>>]
  /\ gatewayConfigurationFunc = FALSE
  /\ gatewayCommandExecRequestFunc = FALSE
  /\ rawPacketForwarderCommandFunc = FALSE
  /\ commandCounter = [k \in Kinds |-> 0]
  /\ cmd = [topic |-> "", payload |-> <<>>, kind |-> "none", outcome |-> "none",
            invoked |-> <<>>, seen |-> 0, prev |-> "none"]
  /\ linkGateways = {}
  /\ linkWriter = "none"
  /\ linkCaller = [w \in LinkCallers |-> IdleLink]
  /\ notified = <<>>
  /\ mutated = <<>>
  /\ linkCalls = 0

\* The backend under its subscription callers: credentials that must be rotated
\* (with none, reconnectLoop does nothing), connect errors that are retried; the
\* three metrics, which nothing reads, are not counted.
Init ==
  /\ terminateOnConnectError = FALSE
  /\ rotate = TRUE
  /\ failLimit = CoreConnFail
  /\ metricLimit = 0
  /\ subscribeEventFunc = TRUE
  /\ Boot

\* The connection manager under every configuration.
InitConnect ==
  /\ terminateOnConnectError \in BOOLEAN
  /\ rotate \in BOOLEAN
  /\ failLimit = MaxConnFail
  /\ metricLimit = MaxMetric
  /\ subscribeEventFunc = TRUE
  /\ Boot

\* os.Exit in log.Fatal stops every goroutine.
Running == ~terminated

\* ------------------------------------------------- connect, connectLoop
\* connectLoop: "if err := b.connect(); err != nil {...} else { break }"
ConnectLoopBreaksMut(err) == TRUE
ConnectLoopBreaks(err) == err = "nil"

\* connectLoop: "if b.terminateOnConnectError { log.Fatal(err) }"
FatalOnConnectErrorMut == FALSE
FatalOnConnectError == terminateOnConnectError

\* connectLoop's branch on the error of connect(): break, log.Fatal, or
\* time.Sleep(2s) and the next connect()
ConnectLoopBranch(err) ==
  IF ConnectLoopBreaks(err)
    THEN /\ cm' = [cm EXCEPT !.pc = "rl_check", !.calls = @ + 1, !.err = err]
         /\ started' = TRUE
         /\ UNCHANGED terminated
    ELSE /\ UNCHANGED started
         /\ IF FatalOnConnectError
              THEN /\ terminated' = TRUE
                   /\ cm' = [cm EXCEPT !.pc = "fatal", !.calls = @ + 1, !.fails = @ + 1,
                                       !.err = err]
              ELSE /\ UNCHANGED terminated
                   /\ cm' = [cm EXCEPT !.pc = "connect", !.calls = @ + 1, !.fails = @ + 1,
                                       !.err = err]

\* connect: b.Lock(); b.auth.Update fails; the deferred b.Unlock(); connect returns
\* the error to connectLoop
connectAuthError ==
  /\ Running
  /\ cm.pc = "connect"
  /\ CanLock
  /\ cm.fails < failLimit
  /\ ConnectLoopBranch("auth")
  /\ UNCHANGED <<terminateOnConnectError, rotate, conn, subs, orphans, closed, gateways,
                 writer, readers, stoppc, setter, lastSet, spawned, oc, pub, eventCounter,
                 metric, failLimit, metricLimit, downlinkFrameFunc, dl,
                 gatewayConfigurationFunc, gatewayCommandExecRequestFunc,
                 rawPacketForwarderCommandFunc, commandCounter, cmd, linkGateways,
                 subscribeEventFunc, linkWriter, linkCaller, notified, mutated, linkCalls>>

\* "b.conn = paho.NewClient(b.clientOpts)": the handle b.conn held is let go
NewClientOrphans(c, n) == IF Live(c) THEN n + 1 ELSE n

\* connect: b.Lock(); b.auth.Update; b.conn = paho.NewClient(b.clientOpts)
connectNewClient ==
  /\ Running
  /\ cm.pc = "connect"
  /\ CanLock
  /\ writer' = "cm"
  /\ orphans' = NewClientOrphans(conn, orphans)
  /\ conn' = "new"
  /\ subs' = {}
  /\ cm' = [cm EXCEPT !.pc = "c_conn"]
  /\ UNCHANGED <<terminateOnConnectError, rotate, closed, gateways, readers, started,
                 terminated, stoppc, setter, lastSet, spawned, oc, pub, eventCounter,
                 metric, failLimit, metricLimit, downlinkFrameFunc, dl,
                 gatewayConfigurationFunc, gatewayCommandExecRequestFunc,
                 rawPacketForwarderCommandFunc, commandCounter, cmd, linkGateways,
                 subscribeEventFunc, linkWriter, linkCaller, notified, mutated, linkCalls>>

\* connect: b.conn.Connect() succeeds and the client starts onConnected in a
\* goroutine; the deferred b.Unlock(); connect returns nil to connectLoop
connectDialOk ==
  /\ Running
  /\ cm.pc = "c_conn"
  /\ conn' = "up"
  /\ spawned' = Spawn(spawned)
  /\ writer' = "none"
  /\ ConnectLoopBranch("nil")
  /\ UNCHANGED <<terminateOnConnectError, rotate, subs, orphans, closed, gateways, readers,
                 stoppc, setter, lastSet, oc, pub, eventCounter, metric, failLimit,
                 metricLimit, downlinkFrameFunc, dl, gatewayConfigurationFunc,
                 gatewayCommandExecRequestFunc, rawPacketForwarderCommandFunc,
                 commandCounter, cmd, linkGateways, subscribeEventFunc, linkWriter,
                 linkCaller, notified, mutated, linkCalls>>

\* connect: b.conn.Connect() fails; the deferred b.Unlock(); connect returns the
\* token's error to connectLoop
connectDialError ==
  /\ Running
  /\ cm.pc = "c_conn"
  /\ cm.fails < failLimit
  /\ conn' = "closed"
  /\ writer' = "none"
  /\ ConnectLoopBranch("refused")
  /\ UNCHANGED <<terminateOnConnectError, rotate, subs, orphans, closed, gateways, readers,
                 stoppc, setter, lastSet, spawned, oc, pub, eventCounter, metric, failLimit,
                 metricLimit, downlinkFrameFunc, dl, gatewayConfigurationFunc,
                 gatewayCommandExecRequestFunc, rawPacketForwarderCommandFunc,
                 commandCounter, cmd, linkGateways, subscribeEventFunc, linkWriter,
                 linkCaller, notified, mutated, linkCalls>>

\* ------------------------------------------------ reconnectLoop, disconnect
\* reconnectLoop: "if b.auth.ReconnectAfter() > 0" and, in the loop, "if b.closed { break }"
reconnectLoopCheck ==
  /\ Running
  /\ cm.pc = "rl_check"
  /\ cm' = [cm EXCEPT !.pc = IF rotate /\ ~closed THEN "rl_sleep" ELSE "rl_done"]
  /\ UNCHANGED <<terminateOnConnectError, rotate, conn, subs, orphans, closed, gateways,
                 writer, readers, started, terminated, stoppc, setter, lastSet, spawned, oc,
                 pub, eventCounter, metric, failLimit, metricLimit, downlinkFrameFunc, dl,
                 gatewayConfigurationFunc, gatewayCommandExecRequestFunc,
                 rawPacketForwarderCommandFunc, commandCounter, cmd, linkGateways,
                 subscribeEventFunc, linkWriter, linkCaller, notified, mutated, linkCalls>>

\* disconnect: b.conn.Disconnect(250)
ForcedDisconnectMut == UNCHANGED <<conn, subs>>
ForcedDisconnect == ClientDisconnect

\* reconnectLoop: time.Sleep(ReconnectAfter) ends; mqttReconnectCounter().Inc();
\* disconnect: mqttDisconnectCounter().Inc(), b.Lock(), b.conn.Disconnect(250), the
\* deferred b.Unlock(); reconnectLoop goes on to connectLoop().  (The sleep ends when
\* the client can start one more onConnected goroutine.)
reconnectLoopDisconnect ==
  /\ Running
  /\ cm.pc = "rl_sleep"
  /\ CanLock
  /\ metric' = [metric EXCEPT !.reconnect = Inc(@), !.disconnect = Inc(@)]
  /\ ForcedDisconnect
  /\ cm' = [cm EXCEPT !.pc = "connect", !.calls = 0, !.fails = 0]
  /\ UNCHANGED <<terminateOnConnectError, rotate, orphans, closed, gateways, writer,
                 readers, started, terminated, stoppc, setter, lastSet, spawned, oc, pub,
                 eventCounter, failLimit, metricLimit, downlinkFrameFunc, dl,
                 gatewayConfigurationFunc, gatewayCommandExecRequestFunc,
                 rawPacketForwarderCommandFunc, commandCounter, cmd, linkGateways,
                 subscribeEventFunc, linkWriter, linkCaller, notified, mutated, linkCalls>>

\* --------------------------------------------------------------- Stop
\* Stop: b.Lock(); b.closed = true; b.Unlock()
StopClose ==
  /\ Running
  /\ started
  /\ stoppc = "idle"
  /\ CanLock
  /\ closed' = TRUE
  /\ stoppc' = "s_disc"
  /\ UNCHANGED <<terminateOnConnectError, rotate, conn, subs, orphans, gateways, writer,
                 readers, cm, started, terminated, setter, lastSet, spawned, oc, pub,
                 eventCounter, metric, failLimit, metricLimit, downlinkFrameFunc, dl,
                 gatewayConfigurationFunc, gatewayCommandExecRequestFunc,
                 rawPacketForwarderCommandFunc, commandCounter, cmd, linkGateways,
                 subscribeEventFunc, linkWriter, linkCaller, notified, mutated, linkCalls>>

\* Stop: b.conn.Disconnect(250), on whatever b.conn holds now (read without the lock)
StopDisconnect ==
  /\ Running
  /\ stoppc = "s_disc"
  /\ ClientDisconnect
  /\ stoppc' = "done"
  /\ UNCHANGED <<terminateOnConnectError, rotate, orphans, closed, gateways, writer,
                 readers, cm, started, terminated, setter, lastSet, spawned, oc, pub,
                 eventCounter, metric, failLimit, metricLimit, downlinkFrameFunc, dl,
                 gatewayConfigurationFunc, gatewayCommandExecRequestFunc,
                 rawPacketForwarderCommandFunc, commandCounter, cmd, linkGateways,
                 subscribeEventFunc, linkWriter, linkCaller, notified, mutated, linkCalls>>

\* ------------------------------------------------- the network, the client
\* The connection of the connected client breaks: the client calls onConnectionLost
\* (mqttDisconnectCounter().Inc()) and starts reconnecting (SetAutoReconnect(true)).
onConnectionLost ==
  /\ Running
  /\ conn = "up"
  /\ conn' = "lost"
  /\ metric' = [metric EXCEPT !.disconnect = Inc(@)]
  /\ UNCHANGED <<terminateOnConnectError, rotate, subs, orphans, closed, gateways, writer,
                 readers, cm, started, terminated, stoppc, setter, lastSet, spawned, oc,
                 pub, eventCounter, failLimit, metricLimit, downlinkFrameFunc, dl,
                 gatewayConfigurationFunc, gatewayCommandExecRequestFunc,
                 rawPacketForwarderCommandFunc, commandCounter, cmd, linkGateways,
                 subscribeEventFunc, linkWriter, linkCaller, notified, mutated, linkCalls>>

\* The client's automatic reconnect succeeds: the broker's session may or may not have
\* kept the subscriptions; the client starts onConnected in a goroutine.
AutoReconnect ==
  /\ Running
  /\ conn = "lost"
  /\ conn' = "up"
  /\ \E kept \in {subs, {}} : subs' = kept
  /\ spawned' = Spawn(spawned)
  /\ UNCHANGED <<terminateOnConnectError, rotate, orphans, closed, gateways, writer,
                 readers, cm, started, terminated, stoppc, setter, lastSet, oc, pub,
                 eventCounter, metric, failLimit, metricLimit, downlinkFrameFunc, dl,
                 gatewayConfigurationFunc, gatewayCommandExecRequestFunc,
                 rawPacketForwarderCommandFunc, commandCounter, cmd, linkGateways,
                 subscribeEventFunc, linkWriter, linkCaller, notified, mutated, linkCalls>>

\* ------------------------------------------------ SetGatewaySubscription
\* "_, ok := b.gateways[gatewayID]; if ok == subscribe { return nil }"
AlreadyAsWantedMut(ok, subscribe) == FALSE
AlreadyAsWanted(ok, subscribe) == ok = subscribe

\* "b.gateways[gatewayID] = struct{}{}" and "delete(b.gateways, gatewayID)"
RegistryAfterMut(reg, subscribe, g) == reg
RegistryAfter(reg, subscribe, g) == IF subscribe THEN reg \cup {g} ELSE reg \ {g}

\* What b.conn.Subscribe and b.conn.Unsubscribe, once acknowledged, leave at the broker.
BrokerAfter(s, subscribe, g) == IF subscribe THEN s \cup {g} ELSE s \ {g}

\* A caller enters SetGatewaySubscription(subscribe, gatewayID): b.Lock() and the
\* membership test: return at once, or enter the retry loop.  (A caller blocked in
\* b.Lock() has done nothing yet: its call begins, here, when the lock is its own.)
SetGatewaySubscriptionLock(t) ==
  /\ Running
  /\ started
  /\ setter[t].pc = "idle"
  /\ CanLock
  /\ writer' = t
  /\ \E subscribe \in BOOLEAN, g \in Gateways :
       setter' = [setter EXCEPT ![t] =
         [IdleSetter EXCEPT !.pc = IF AlreadyAsWanted(g \in gateways, subscribe)
                                     THEN "ret" ELSE "loop",
                            !.noop = AlreadyAsWanted(g \in gateways, subscribe),
                            !.want = subscribe, !.gw = g,
                            !.entry = gateways, !.prev = lastSet]]
  /\ UNCHANGED <<terminateOnConnectError, rotate, conn, subs, orphans, closed, gateways,
                 readers, cm, started, terminated, stoppc, lastSet, spawned, oc, pub,
                 eventCounter, metric, failLimit, metricLimit, downlinkFrameFunc, dl,
                 gatewayConfigurationFunc, gatewayCommandExecRequestFunc,
                 rawPacketForwarderCommandFunc, commandCounter, cmd, linkGateways,
                 subscribeEventFunc, linkWriter, linkCaller, notified, mutated, linkCalls>>

\* subscribeGateway or unsubscribeGateway returns nil: the broker acknowledged, and
\* the registry is updated; "break"
SetGatewaySubscriptionOk(t) ==
  /\ Running
  /\ setter[t].pc = "loop"
  /\ conn = "up"
  /\ subs' = BrokerAfter(subs, setter[t].want, setter[t].gw)
  /\ gateways' = RegistryAfter(gateways, setter[t].want, setter[t].gw)
  /\ setter' = [setter EXCEPT ![t].pc = "ret", ![t].calls = @ + 1]
  /\ UNCHANGED <<terminateOnConnectError, rotate, conn, orphans, closed, writer, readers,
                 cm, started, terminated, stoppc, lastSet, spawned, oc, pub, eventCounter,
                 metric, failLimit, metricLimit, downlinkFrameFunc, dl,
                 gatewayConfigurationFunc, gatewayCommandExecRequestFunc,
                 rawPacketForwarderCommandFunc, commandCounter, cmd, linkGateways,
                 subscribeEventFunc, linkWriter, linkCaller, notified, mutated, linkCalls>>

\* subscribeGateway or unsubscribeGateway returns an error (the client is not
\* connected, or the broker refused): log, time.Sleep(time.Second), "continue"
SetGatewaySubscriptionError(t) ==
  /\ Running
  /\ setter[t].pc = "loop"
  /\ setter' = [setter EXCEPT ![t].pc = "sleep", ![t].calls = Sat(@), ![t].fails = Sat(@)]
  /\ UNCHANGED <<terminateOnConnectError, rotate, conn, subs, orphans, closed, gateways,
                 writer, readers, cm, started, terminated, stoppc, lastSet, spawned, oc,
                 pub, eventCounter, metric, failLimit, metricLimit, downlinkFrameFunc, dl,
                 gatewayConfigurationFunc, gatewayCommandExecRequestFunc,
                 rawPacketForwarderCommandFunc, commandCounter, cmd, linkGateways,
                 subscribeEventFunc, linkWriter, linkCaller, notified, mutated, linkCalls>>

\* time.Sleep(time.Second) ends: the next round of the loop
SetGatewaySubscriptionRetry(t) ==
  /\ Running
  /\ setter[t].pc = "sleep"
  /\ setter' = [setter EXCEPT ![t].pc = "loop"]
  /\ UNCHANGED <<terminateOnConnectError, rotate, conn, subs, orphans, closed, gateways,
                 writer, readers, cm, started, terminated, stoppc, lastSet, spawned, oc,
                 pub, eventCounter, metric, failLimit, metricLimit, downlinkFrameFunc, dl,
                 gatewayConfigurationFunc, gatewayCommandExecRequestFunc,
                 rawPacketForwarderCommandFunc, commandCounter, cmd, linkGateways,
                 subscribeEventFunc, linkWriter, linkCaller, notified, mutated, linkCalls>>

\* "return nil" and the deferred b.Unlock()
SetGatewaySubscriptionReturn(t) ==
  /\ Running
  /\ setter[t].pc = "ret"
  /\ writer' = "none"
  /\ lastSet' = <<setter[t].want, setter[t].gw>>
  /\ setter' = [setter EXCEPT ![t] = IdleSetter]
  /\ UNCHANGED <<terminateOnConnectError, rotate, conn, subs, orphans, closed, gateways,
                 readers, cm, started, terminated, stoppc, spawned, oc, pub, eventCounter,
                 metric, failLimit, metricLimit, downlinkFrameFunc, dl,
                 gatewayConfigurationFunc, gatewayCommandExecRequestFunc,
                 rawPacketForwarderCommandFunc, commandCounter, cmd, linkGateways,
                 subscribeEventFunc, linkWriter, linkCaller, notified, mutated, linkCalls>>

\* ------------------------------------------------------------ onConnected
\* "for gatewayID := range b.gateways": the identities the pass goes through
ResubscribeSetMut(reg) == {}
ResubscribeSet(reg) == reg

\* "time.Sleep(time.Second); continue": the failed identity stays to be done
AfterSubscribeErrorMut(todo, g) == todo \ {g}
AfterSubscribeError(todo, g) == todo

\* The invocations run in the lowest free slot.
SlotBefore(r, s) == r = "o1" /\ s = "o2"
FreeSlot(s) == oc[s].pc = "idle" /\ \A r \in Slots : oc[r].pc = "idle" => ~SlotBefore(r, s)

AttemptsCap == Cardinality(Gateways) + MaxRetry
Count(n) == IF n < AttemptsCap THEN n + 1 ELSE n

\* The identity the pass is at: the one being retried, or the next of the range.
AtGateway(s, g) ==
  /\ g \in oc[s].todo
  /\ oc[s].cur \in {NoGateway, g}

\* A goroutine the client started enters onConnected: mqttConnectCounter().Inc()
onConnectedEnter(s) ==
  /\ Running
  /\ spawned > 0
  /\ FreeSlot(s)
  /\ spawned' = spawned - 1
  /\ metric' = [metric EXCEPT !.connect = Inc(@)]
  /\ oc' = [oc EXCEPT ![s] = [IdleSlot EXCEPT !.pc = "fired", !.atFire = gateways]]
  /\ UNCHANGED <<terminateOnConnectError, rotate, conn, subs, orphans, closed, gateways,
                 writer, readers, cm, started, terminated, stoppc, setter, lastSet, pub,
                 eventCounter, failLimit, metricLimit, downlinkFrameFunc, dl,
                 gatewayConfigurationFunc, gatewayCommandExecRequestFunc,
                 rawPacketForwarderCommandFunc, commandCounter, cmd, linkGateways,
                 subscribeEventFunc, linkWriter, linkCaller, notified, mutated, linkCalls>>

\* onConnected: b.RLock(), and the range over b.gateways begins
onConnectedRLock(s) ==
  /\ Running
  /\ oc[s].pc = "fired"
  /\ CanRLock
  /\ readers' = readers \cup {s}
  /\ oc' = [oc EXCEPT ![s].pc = "pass", ![s].atLock = gateways,
                      ![s].todo = ResubscribeSet(gateways)]
  /\ UNCHANGED <<terminateOnConnectError, rotate, conn, subs, orphans, closed, gateways,
                 writer, cm, started, terminated, stoppc, setter, lastSet, spawned, pub,
                 eventCounter, metric, failLimit, metricLimit, downlinkFrameFunc, dl,
                 gatewayConfigurationFunc, gatewayCommandExecRequestFunc,
                 rawPacketForwarderCommandFunc, commandCounter, cmd, linkGateways,
                 subscribeEventFunc, linkWriter, linkCaller, notified, mutated, linkCalls>>

\* onConnected: subscribeGateway(gatewayID) returns nil; "break" to the next identity
onConnectedSubscribeOk(s) ==
  /\ Running
  /\ oc[s].pc = "pass"
  /\ conn = "up"
  /\ \E g \in Gateways :
       /\ AtGateway(s, g)
       /\ subs' = BrokerAfter(subs, TRUE, g)
       /\ oc' = [oc EXCEPT ![s].todo = @ \ {g}, ![s].cur = NoGateway,
                           ![s].tried = @ \cup {g}, ![s].okset = @ \cup {g},
                           ![s].attempts = Count(@)]
  /\ UNCHANGED <<terminateOnConnectError, rotate, conn, orphans, closed, gateways, writer,
                 readers, cm, started, terminated, stoppc, setter, lastSet, spawned, pub,
                 eventCounter, metric, failLimit, metricLimit, downlinkFrameFunc, dl,
                 gatewayConfigurationFunc, gatewayCommandExecRequestFunc,
                 rawPacketForwarderCommandFunc, commandCounter, cmd, linkGateways,
                 subscribeEventFunc, linkWriter, linkCaller, notified, mutated, linkCalls>>

\* onConnected: subscribeGateway(gatewayID) returns an error: log,
\* time.Sleep(time.Second), "continue"
onConnectedSubscribeError(s) ==
  /\ Running
  /\ oc[s].pc = "pass"
  /\ \E g \in Gateways :
       /\ AtGateway(s, g)
       /\ oc' = [oc EXCEPT ![s].pc = "sleep", ![s].todo = AfterSubscribeError(@, g),
                           ![s].cur = IF g \in AfterSubscribeError(oc[s].todo, g)
                                        THEN g ELSE NoGateway,
                           ![s].tried = @ \cup {g}, ![s].attempts = Count(@),
                           ![s].fails = Sat(@)]
  /\ UNCHANGED <<terminateOnConnectError, rotate, conn, subs, orphans, closed, gateways,
                 writer, readers, cm, started, terminated, stoppc, setter, lastSet, spawned,
                 pub, eventCounter, metric, failLimit, metricLimit, downlinkFrameFunc, dl,
                 gatewayConfigurationFunc, gatewayCommandExecRequestFunc,
                 rawPacketForwarderCommandFunc, commandCounter, cmd, linkGateways,
                 subscribeEventFunc, linkWriter, linkCaller, notified, mutated, linkCalls>>

\* onConnected: time.Sleep(time.Second) ends: the next round for the same identity
onConnectedRetry(s) ==
  /\ Running
  /\ oc[s].pc = "sleep"
  /\ oc' = [oc EXCEPT ![s].pc = "pass"]
  /\ UNCHANGED <<terminateOnConnectError, rotate, conn, subs, orphans, closed, gateways,
                 writer, readers, cm, started, terminated, stoppc, setter, lastSet, spawned,
                 pub, eventCounter, metric, failLimit, metricLimit, downlinkFrameFunc, dl,
                 gatewayConfigurationFunc, gatewayCommandExecRequestFunc,
                 rawPacketForwarderCommandFunc, commandCounter, cmd, linkGateways,
                 subscribeEventFunc, linkWriter, linkCaller, notified, mutated, linkCalls>>

\* onConnected: the range is over; the deferred b.RUnlock()
onConnectedReturn(s) ==
  /\ Running
  /\ oc[s].pc = "pass"
  /\ oc[s].todo = {}
  /\ readers' = readers \ {s}
  /\ oc' = [oc EXCEPT ![s] = IdleSlot]
  /\ UNCHANGED <<terminateOnConnectError, rotate, conn, subs, orphans, closed, gateways,
                 writer, cm, started, terminated, stoppc, setter, lastSet, spawned, pub,
                 eventCounter, metric, failLimit, metricLimit, downlinkFrameFunc, dl,
                 gatewayConfigurationFunc, gatewayCommandExecRequestFunc,
                 rawPacketForwarderCommandFunc, commandCounter, cmd, linkGateways,
                 subscribeEventFunc, linkWriter, linkCaller, notified, mutated, linkCalls>>

\* ----------------------------------------------------- PublishEvent, publish
\* publish: "if token := b.conn.Publish(...); token.Wait() && token.Error() != nil
\* { return token.Error() }; return nil"
PublishResultMut(err) == "nil"
PublishResult(err) == err

\* publish: the broker publish calls one publish() makes
PublishCalls(n) == n + 1

Published == eventCounter["up"] + eventCounter["stats"]

\* PublishEvent: mqttEventCounter(event).Inc()
PublishEvent ==
  /\ Running
  /\ started
  /\ pub.pc = "idle"
  /\ Published < MaxPublish
  /\ \E e \in Events :
       /\ eventCounter' = [eventCounter EXCEPT ![e] = @ + 1]
       /\ pub' = [IdlePub EXCEPT !.pc = "publish", !.event = e]
  /\ UNCHANGED <<terminateOnConnectError, rotate, conn, subs, orphans, closed, gateways,
                 writer, readers, cm, started, terminated, stoppc, setter, lastSet, spawned,
                 oc, metric, failLimit, metricLimit, downlinkFrameFunc, dl,
                 gatewayConfigurationFunc, gatewayCommandExecRequestFunc,
                 rawPacketForwarderCommandFunc, commandCounter, cmd, linkGateways,
                 subscribeEventFunc, linkWriter, linkCaller, notified, mutated, linkCalls>>

\* publish: b.eventTopicTemplate.Execute or b.marshal fails: the wrapped error is
\* returned, b.conn.Publish is not called
publishLocalError ==
  /\ Running
  /\ pub.pc = "publish"
  /\ \E e \in {"template", "marshal"} : pub' = [pub EXCEPT !.pc = "ret", !.ret = e]
  /\ UNCHANGED <<terminateOnConnectError, rotate, conn, subs, orphans, closed, gateways,
                 writer, readers, cm, started, terminated, stoppc, setter, lastSet, spawned,
                 oc, eventCounter, metric, failLimit, metricLimit, downlinkFrameFunc, dl,
                 gatewayConfigurationFunc, gatewayCommandExecRequestFunc,
                 rawPacketForwarderCommandFunc, commandCounter, cmd, linkGateways,
                 subscribeEventFunc, linkWriter, linkCaller, notified, mutated, linkCalls>>

\* publish: b.conn.Publish succeeds (the client is connected, or reconnecting and
\* queues the message)
publishOk ==
  /\ Running
  /\ pub.pc = "publish"
  /\ Live(conn)
  /\ pub' = [pub EXCEPT !.pc = "ret", !.calls = PublishCalls(@), !.err = "nil",
                        !.ret = PublishResult("nil")]
  /\ UNCHANGED <<terminateOnConnectError, rotate, conn, subs, orphans, closed, gateways,
                 writer, readers, cm, started, terminated, stoppc, setter, lastSet, spawned,
                 oc, eventCounter, metric, failLimit, metricLimit, downlinkFrameFunc, dl,
                 gatewayConfigurationFunc, gatewayCommandExecRequestFunc,
                 rawPacketForwarderCommandFunc, commandCounter, cmd, linkGateways,
                 subscribeEventFunc, linkWriter, linkCaller, notified, mutated, linkCalls>>

\* publish: b.conn.Publish fails with the token's error
publishError ==
  /\ Running
  /\ pub.pc = "publish"
  /\ \E e \in BrokerErrors :
       pub' = [pub EXCEPT !.pc = "ret", !.calls = PublishCalls(@), !.err = e,
                          !.ret = PublishResult(e)]
  /\ UNCHANGED <<terminateOnConnectError, rotate, conn, subs, orphans, closed, gateways,
                 writer, readers, cm, started, terminated, stoppc, setter, lastSet, spawned,
                 oc, eventCounter, metric, failLimit, metricLimit, downlinkFrameFunc, dl,
                 gatewayConfigurationFunc, gatewayCommandExecRequestFunc,
                 rawPacketForwarderCommandFunc, commandCounter, cmd, linkGateways,
                 subscribeEventFunc, linkWriter, linkCaller, notified, mutated, linkCalls>>

\* PublishEvent returns what publish returned
PublishEventReturn ==
  /\ Running
  /\ pub.pc = "ret"
  /\ pub' = IdlePub
  /\ UNCHANGED <<terminateOnConnectError, rotate, conn, subs, orphans, closed, gateways,
                 writer, readers, cm, started, terminated, stoppc, setter, lastSet, spawned,
                 oc, eventCounter, metric, failLimit, metricLimit, downlinkFrameFunc, dl,
                 gatewayConfigurationFunc, gatewayCommandExecRequestFunc,
                 rawPacketForwarderCommandFunc, commandCounter, cmd, linkGateways,
                 subscribeEventFunc, linkWriter, linkCaller, notified, mutated, linkCalls>>

\* ------------------------------------------------------ the specification
Next ==
  \/ connectAuthError
  \/ connectNewClient
  \/ connectDialOk
  \/ connectDialError
  \/ reconnectLoopCheck
  \/ reconnectLoopDisconnect
  \/ StopClose
  \/ StopDisconnect
  \/ onConnectionLost
  \/ AutoReconnect
  \/ \E t \in Setters : SetGatewaySubscriptionLock(t)
  \/ \E t \in Setters : SetGatewaySubscriptionOk(t)
  \/ \E t \in Setters : SetGatewaySubscriptionError(t)
  \/ \E t \in Setters : SetGatewaySubscriptionRetry(t)
  \/ \E t \in Setters : SetGatewaySubscriptionReturn(t)
  \/ \E s \in Slots : onConnectedEnter(s)
  \/ \E s \in Slots : onConnectedRLock(s)
  \/ \E s \in Slots : onConnectedSubscribeOk(s)
  \/ \E s \in Slots : onConnectedSubscribeError(s)
  \/ \E s \in Slots : onConnectedRetry(s)
  \/ \E s \in Slots : onConnectedReturn(s)

Spec == Init /\ [][Next]_vars

\* Spec under fair scheduling and a broker that accepts in the end.  Every goroutine
\* that can take a step takes one; a goroutine waiting for the lock gets it if it
\* is free again and again; a call on the client that can succeed again and again
\* does succeed.  Nothing is assumed of what callers, the network and a refusing
\* broker start: Stop, a new SetGatewaySubscription call, an error; the network loses
\* the connection finitely often.
Fairness ==
  /\ <>[][~onConnectionLost]_vars
  /\ SF_vars(connectNewClient)
  /\ WF_vars(connectDialOk \/ connectDialError)
  /\ SF_vars(connectDialOk)
  /\ WF_vars(reconnectLoopCheck)
  /\ SF_vars(reconnectLoopDisconnect)
  /\ WF_vars(StopDisconnect)
  /\ WF_vars(AutoReconnect)
  /\ \A t \in Setters :
       /\ WF_vars(SetGatewaySubscriptionOk(t) \/ SetGatewaySubscriptionError(t))
       /\ SF_vars(SetGatewaySubscriptionOk(t))
       /\ WF_vars(SetGatewaySubscriptionRetry(t))
       /\ WF_vars(SetGatewaySubscriptionReturn(t))
  /\ \A s \in Slots :
       /\ WF_vars(onConnectedEnter(s))
       /\ SF_vars(onConnectedRLock(s))
       /\ WF_vars(onConnectedSubscribeOk(s) \/ onConnectedSubscribeError(s))
       /\ SF_vars(onConnectedSubscribeOk(s))
       /\ WF_vars(onConnectedRetry(s))
       /\ WF_vars(onConnectedReturn(s))

LiveSpec == Spec /\ Fairness

NextConnect ==
  \/ connectAuthError
  \/ connectNewClient
  \/ connectDialOk
  \/ connectDialError
  \/ reconnectLoopCheck
  \/ reconnectLoopDisconnect
  \/ StopClose
  \/ StopDisconnect
  \/ onConnectionLost
  \/ AutoReconnect
  \/ \E s \in Slots : onConnectedEnter(s)
  \/ \E s \in Slots : onConnectedRLock(s)
  \/ \E s \in Slots : onConnectedReturn(s)
  \/ PublishEvent
  \/ publishLocalError
  \/ publishOk
  \/ publishError
  \/ PublishEventReturn

SpecConnect == InitConnect /\ [][NextConnect]_vars

\* ------------------------------------------------- handleDownlinkFrame
\* Byte strings are sequences; a pointer is a sequence of no element (nil) or one.
Bytes == {<<>>, <<7>>}
GatewayIds == {<<>>, <<1>>, <<2>>}
TxInfos == {<<>>} \cup {<<[GatewayId |-> g]>> : g \in GatewayIds}
FrameItems == [PhyPayload : Bytes, TxInfo : TxInfos]
ItemLists == UNION {[1..n -> FrameItems] : n \in 0..MaxItems}
DownlinkFrames ==
  [Items : ItemLists, PhyPayload : Bytes, TxInfo : TxInfos, GatewayId : GatewayIds]
\* a message payload: bytes that b.unmarshal rejects, or the bytes of a frame
Payloads == {<<>>} \cup {<<f>> : f \in DownlinkFrames}

\* b.unmarshal(msg.Payload(), &downlinkFrame)
UnmarshalFails(p) == p = <<>>
Unmarshal(p) == p[1]

\* the getters of the generated code answer the zero value on a nil receiver
GetGatewayId(txInfo) == IF txInfo = <<>> THEN <<>> ELSE txInfo[1].GatewayId

\* "len(Items) == 0 && (TxInfo != nil && len(PhyPayload) != 0)"
IsLegacyMut(f) == FALSE
IsLegacy(f) == Len(f.Items) = 0 /\ (f.TxInfo # <<>> /\ Len(f.PhyPayload) # 0)

LegacyGatewayId(f, items) == GetGatewayId(items[1].TxInfo)

\* the frame after the backwards-compatibility step
Normalize(f) ==
  IF IsLegacy(f)
    THEN LET items == Append(f.Items, [PhyPayload |-> f.PhyPayload, TxInfo |-> f.TxInfo])
         IN  [f EXCEPT !.Items = items, !.GatewayId = LegacyGatewayId(f, items)]
    ELSE f

SetDownlinkFrameFunc ==
  /\ Running
  /\ ~downlinkFrameFunc
  /\ downlinkFrameFunc' = TRUE
  /\ UNCHANGED <<terminateOnConnectError, rotate, conn, subs, orphans, closed, gateways,
                 writer, readers, cm, started, terminated, stoppc, setter, lastSet, spawned,
                 oc, pub, eventCounter, metric, failLimit, metricLimit, dl,
                 gatewayConfigurationFunc, gatewayCommandExecRequestFunc,
                 rawPacketForwarderCommandFunc, commandCounter, cmd, linkGateways,
                 subscribeEventFunc, linkWriter, linkCaller, notified, mutated, linkCalls>>

\* what handleDownlinkFrame does with the payload p
DownlinkOutcome(p) ==
  IF UnmarshalFails(p)
    THEN [payload |-> p, outcome |-> "unmarshal_error", handed |-> <<>>]
    ELSE LET f == Normalize(Unmarshal(p))
         IN  IF Len(f.Items) = 0
               THEN [payload |-> p, outcome |-> "no_items", handed |-> <<>>]
               ELSE IF downlinkFrameFunc
                      THEN [payload |-> p, outcome |-> "handled", handed |-> <<f>>]
                      ELSE [payload |-> p, outcome |-> "no_handler", handed |-> <<>>]

handleDownlinkFrame(p) ==
  /\ Running
  /\ dl' = DownlinkOutcome(p)
  /\ UNCHANGED <<terminateOnConnectError, rotate, conn, subs, orphans, closed, gateways,
                 writer, readers, cm, started, terminated, stoppc, setter, lastSet, spawned,
                 oc, pub, eventCounter, metric, failLimit, metricLimit, downlinkFrameFunc,
                 gatewayConfigurationFunc, gatewayCommandExecRequestFunc,
                 rawPacketForwarderCommandFunc, commandCounter, cmd, linkGateways,
                 subscribeEventFunc, linkWriter, linkCaller, notified, mutated, linkCalls>>

NextDispatch ==
  \/ SetDownlinkFrameFunc
  \/ \E p \in Payloads : handleDownlinkFrame(p)

SpecDispatch == Init /\ [][NextDispatch]_vars

\* --------------------------------------------------------- handleCommand
\* strings.HasSuffix and strings.Contains
HasSuffixMut(str, suffix) == FALSE
HasSuffix(str, suffix) ==
  /\ Len(str) >= Len(suffix)
  /\ SubSeq(str, Len(str) - Len(suffix) + 1, Len(str)) = suffix

Contains(str, substr) ==
  \E i \in 1..(Len(str) + 1) :
    /\ i + Len(substr) - 1 <= Len(str)
    /\ SubSeq(str, i, i + Len(substr) - 1) = substr

\* the topics a message arrives on
Topics ==
  { "gateway/0102/command/down",
    "gateway/0102/command/config",
    "gateway/0102/command/exec",
    "gateway/0102/command/raw",
    "devices/gw-1234/commands/config",
    "devices/0102/messages/devicebound/command=config&v=2",
    "devices/0102/messages/devicebound/command=exec&id=7",
    "devices/0102/messages/devicebound/command=raw&id=7",
    "devices/0102/messages/devicebound/command=down&kind=raw",
    "devices/0102/messages/devicebound/command=raw&then=exec",
    "gateway/0102/command/breakdown",
    "gateway/0102/event/up" }

\* the branch handleCommand takes, as the kind of the command
ClassifyMut(topic) ==
  IF HasSuffix(topic, "raw") \/ Contains(topic, "command=raw") THEN "raw"
  ELSE IF HasSuffix(topic, "exec") \/ Contains(topic, "command=exec") THEN "exec"
  ELSE IF HasSuffix(topic, "config") \/ Contains(topic, "command=config") THEN "config"
  ELSE IF HasSuffix(topic, "down") \/ Contains(topic, "command=down") THEN "down"
  ELSE "unknown"
Classify(topic) ==
  IF HasSuffix(topic, "down") \/ Contains(topic, "command=down") THEN "down"
  ELSE IF HasSuffix(topic, "config") \/ Contains(topic, "command=config") THEN "config"
  ELSE IF HasSuffix(topic, "exec") \/ Contains(topic, "command=exec") THEN "exec"
  ELSE IF HasSuffix(topic, "raw") \/ Contains(topic, "command=raw") THEN "raw"
  ELSE "unknown"

\* handleCommand: mqttCommandCounter("down").Inc() and mqttCommandCounter("config").Inc()
CountedKinds == {"down", "config"}
CounterAfter(counter, kind) ==
  IF kind \in CountedKinds THEN [counter EXCEPT ![kind] = @ + 1] ELSE counter

\* the payloads that arrive on those topics: bytes that b.unmarshal rejects, and the
\* bytes of frames with and without items and legacy fields
CommandItem == [PhyPayload |-> <<7>>, TxInfo |-> <<>>]
CommandFrames ==
  {[Items |-> items, PhyPayload |-> legacy[1], TxInfo |-> legacy[2], GatewayId |-> <<1>>] :
     items \in {<<>>, <<CommandItem>>},
     legacy \in {<<<<>>, <<>>>>, <<<<7>>, <<[GatewayId |-> <<2>>]>>>>}}
CommandPayloads == {<<>>} \cup {<<f>> : f \in CommandFrames}

\* handleGatewayConfiguration, handleGatewayCommandExecRequest,
\* handleRawPacketForwarderCommand: unmarshal, then the handler if one is set
DecodeBeforeHandlerMut(p, func) == func
DecodeBeforeHandler(p, func) == ~UnmarshalFails(p) /\ func

HandlerOutcome(p, func) ==
  IF UnmarshalFails(p) THEN "unmarshal_error"
  ELSE IF func THEN "handled" ELSE "no_handler"

FuncOf(kind) ==
  CASE kind = "config" -> gatewayConfigurationFunc
    [] kind = "exec" -> gatewayCommandExecRequestFunc
    [] kind = "raw" -> rawPacketForwarderCommandFunc

\* the handler calls one handleCommand makes: the kind of each and what it is handed
InvocationsMut(kind, p) ==
  IF kind = "unknown" THEN <<[kind |-> "raw", arg |-> p]>> ELSE <<>>
Invocations(kind, p) ==
  IF kind = "down"
    THEN IF DownlinkOutcome(p).outcome = "handled"
           THEN <<[kind |-> "down", arg |-> DownlinkOutcome(p).handed]>>
           ELSE <<>>
  ELSE IF kind \in {"config", "exec", "raw"}
    THEN IF DecodeBeforeHandler(p, FuncOf(kind))
           THEN <<[kind |-> kind, arg |-> p]>>
           ELSE <<>>
  ELSE <<>>

SetGatewayConfigurationFunc ==
  /\ Running
  /\ ~gatewayConfigurationFunc
  /\ gatewayConfigurationFunc' = TRUE
  /\ UNCHANGED <<terminateOnConnectError, rotate, conn, subs, orphans, closed, gateways,
                 writer, readers, cm, started, terminated, stoppc, setter, lastSet, spawned,
                 oc, pub, eventCounter, metric, failLimit, metricLimit, downlinkFrameFunc,
                 dl, gatewayCommandExecRequestFunc, rawPacketForwarderCommandFunc,
                 commandCounter, cmd, linkGateways, subscribeEventFunc, linkWriter,
                 linkCaller, notified, mutated, linkCalls>>

SetGatewayCommandExecRequestFunc ==
  /\ Running
  /\ ~gatewayCommandExecRequestFunc
  /\ gatewayCommandExecRequestFunc' = TRUE
  /\ UNCHANGED <<terminateOnConnectError, rotate, conn, subs, orphans, closed, gateways,
                 writer, readers, cm, started, terminated, stoppc, setter, lastSet, spawned,
                 oc, pub, eventCounter, metric, failLimit, metricLimit, downlinkFrameFunc,
                 dl, gatewayConfigurationFunc, rawPacketForwarderCommandFunc,
                 commandCounter, cmd, linkGateways, subscribeEventFunc, linkWriter,
                 linkCaller, notified, mutated, linkCalls>>

SetRawPacketForwarderCommandFunc ==
  /\ Running
  /\ ~rawPacketForwarderCommandFunc
  /\ rawPacketForwarderCommandFunc' = TRUE
  /\ UNCHANGED <<terminateOnConnectError, rotate, conn, subs, orphans, closed, gateways,
                 writer, readers, cm, started, terminated, stoppc, setter, lastSet, spawned,
                 oc, pub, eventCounter, metric, failLimit, metricLimit, downlinkFrameFunc,
                 dl, gatewayConfigurationFunc, gatewayCommandExecRequestFunc,
                 commandCounter, cmd, linkGateways, subscribeEventFunc, linkWriter,
                 linkCaller, notified, mutated, linkCalls>>

\* the kind of every topic that arrives
KindOf == [topic \in Topics |-> Classify(topic)]

handleCommand(topic, p) ==
  /\ Running
  /\ cmd.seen < MaxCommands
  /\ LET kind == KindOf[topic]
     IN  /\ commandCounter' = CounterAfter(commandCounter, kind)
         /\ dl' = IF kind = "down" THEN DownlinkOutcome(p) ELSE dl
         /\ cmd' = [topic |-> topic,
                    payload |-> p,
                    kind |-> kind,
                    outcome |-> IF kind = "down" THEN DownlinkOutcome(p).outcome
                                ELSE IF kind = "unknown" THEN "unexpected"
                                ELSE HandlerOutcome(p, FuncOf(kind)),
                    invoked |-> Invocations(kind, p),
                    seen |-> cmd.seen + 1,
                    prev |-> cmd.outcome]
  /\ UNCHANGED <<terminateOnConnectError, rotate, conn, subs, orphans, closed, gateways,
                 writer, readers, cm, started, terminated, stoppc, setter, lastSet, spawned,
                 oc, pub, eventCounter, metric, failLimit, metricLimit, downlinkFrameFunc,
                 gatewayConfigurationFunc, gatewayCommandExecRequestFunc,
                 rawPacketForwarderCommandFunc, linkGateways, subscribeEventFunc,
                 linkWriter, linkCaller, notified, mutated, linkCalls>>

NextCommand ==
  \/ SetDownlinkFrameFunc
  \/ SetGatewayConfigurationFunc
  \/ SetGatewayCommandExecRequestFunc
  \/ SetRawPacketForwarderCommandFunc
  \/ \E topic \in Topics, p \in CommandPayloads : handleCommand(topic, p)

SpecCommand == Init /\ [][NextCommand]_vars

\* --------------------------------- package basicstation: type gateways
\* g.Lock() returns when nobody holds the lock; every holder here is exclusive, get
\* holding it in shared mode only for the one read it makes
CanLockLinkMut == TRUE
CanLockLink == linkWriter = "none"

\* "if g.subscribeEventFunc != nil { g.subscribeEventFunc(events.Subscribe{...}) }"
Notify(log, subscribe, id) ==
  IF subscribeEventFunc THEN Append(log, <<id, subscribe>>) ELSE log

\* what get(id) returns
GetError(id) == IF id \in linkGateways THEN "nil" ELSE "errGatewayDoesNotExist"

\* get: RLock, the lookup, RUnlock
get(w, id) ==
  /\ linkCaller[w].pc = "idle"
  /\ linkWriter = "none"
  /\ linkCaller' = [linkCaller EXCEPT ![w] = [pc |-> "idle", id |-> id, err |-> GetError(id)]]
  /\ UNCHANGED <<terminateOnConnectError, rotate, conn, subs, orphans, closed, gateways,
                 writer, readers, cm, started, terminated, stoppc, setter, lastSet, spawned,
                 oc, pub, eventCounter, metric, failLimit, metricLimit, downlinkFrameFunc,
                 dl, gatewayConfigurationFunc, gatewayCommandExecRequestFunc,
                 rawPacketForwarderCommandFunc, commandCounter, cmd, linkGateways,
                 subscribeEventFunc, linkWriter, notified, mutated, linkCalls>>

\* set: Lock, "g.gateways[id] = gw"
setWrite(w, id) ==
  /\ linkCaller[w].pc = "idle"
  /\ linkCalls < MaxLinkCalls
  /\ CanLockLink
  /\ linkWriter' = w
  /\ linkCalls' = linkCalls + 1
  /\ linkGateways' = linkGateways \cup {id}
  /\ mutated' = Append(mutated, <<id, TRUE>>)
  /\ linkCaller' = [linkCaller EXCEPT ![w] = [pc |-> "set_notify", id |-> id, err |-> "none"]]
  /\ UNCHANGED <<terminateOnConnectError, rotate, conn, subs, orphans, closed, gateways,
                 writer, readers, cm, started, terminated, stoppc, setter, lastSet, spawned,
                 oc, pub, eventCounter, metric, failLimit, metricLimit, downlinkFrameFunc,
                 dl, gatewayConfigurationFunc, gatewayCommandExecRequestFunc,
                 rawPacketForwarderCommandFunc, commandCounter, cmd, subscribeEventFunc,
                 notified>>

\* set: the callback with Subscribe: true, Unlock, return nil
setNotify(w) ==
  /\ linkCaller[w].pc = "set_notify"
  /\ notified' = Notify(notified, TRUE, linkCaller[w].id)
  /\ linkWriter' = IF linkWriter = w THEN "none" ELSE linkWriter
  /\ linkCaller' = [linkCaller EXCEPT ![w] = [IdleLink EXCEPT !.err = "nil"]]
  /\ UNCHANGED <<terminateOnConnectError, rotate, conn, subs, orphans, closed, gateways,
                 writer, readers, cm, started, terminated, stoppc, setter, lastSet, spawned,
                 oc, pub, eventCounter, metric, failLimit, metricLimit, downlinkFrameFunc,
                 dl, gatewayConfigurationFunc, gatewayCommandExecRequestFunc,
                 rawPacketForwarderCommandFunc, commandCounter, cmd, linkGateways,
                 subscribeEventFunc, mutated, linkCalls>>

\* remove: Lock, the callback with Subscribe: false
removeNotify(w, id) ==
  /\ linkCaller[w].pc = "idle"
  /\ linkCalls < MaxLinkCalls
  /\ CanLockLink
  /\ linkWriter' = w
  /\ linkCalls' = linkCalls + 1
  /\ notified' = Notify(notified, FALSE, id)
  /\ linkCaller' = [linkCaller EXCEPT ![w] = [pc |-> "rm_delete", id |-> id, err |-> "none"]]
  /\ UNCHANGED <<terminateOnConnectError, rotate, conn, subs, orphans, closed, gateways,
                 writer, readers, cm, started, terminated, stoppc, setter, lastSet, spawned,
                 oc, pub, eventCounter, metric, failLimit, metricLimit, downlinkFrameFunc,
                 dl, gatewayConfigurationFunc, gatewayCommandExecRequestFunc,
                 rawPacketForwarderCommandFunc, commandCounter, cmd, linkGateways,
                 subscribeEventFunc, mutated>>

\* remove: "delete(g.gateways, id)", Unlock, return nil
removeDelete(w) ==
  /\ linkCaller[w].pc = "rm_delete"
  /\ linkGateways' = linkGateways \ {linkCaller[w].id}
  /\ mutated' = Append(mutated, <<linkCaller[w].id, FALSE>>)
  /\ linkWriter' = IF linkWriter = w THEN "none" ELSE linkWriter
  /\ linkCaller' = [linkCaller EXCEPT ![w] = [IdleLink EXCEPT !.err = "nil"]]
  /\ UNCHANGED <<terminateOnConnectError, rotate, conn, subs, orphans, closed, gateways,
                 writer, readers, cm, started, terminated, stoppc, setter, lastSet, spawned,
                 oc, pub, eventCounter, metric, failLimit, metricLimit, downlinkFrameFunc,
                 dl, gatewayConfigurationFunc, gatewayCommandExecRequestFunc,
                 rawPacketForwarderCommandFunc, commandCounter, cmd, subscribeEventFunc,
                 notified, linkCalls>>

InitLinks ==
  /\ terminateOnConnectError = FALSE
  /\ rotate = TRUE
  /\ failLimit = CoreConnFail
  /\ metricLimit = 0
  /\ subscribeEventFunc \in BOOLEAN
  /\ Boot

NextLinks ==
  \/ \E w \in LinkCallers, id \in Gateways : get(w, id)
  \/ \E w \in LinkCallers, id \in Gateways : setWrite(w, id)
  \/ \E w \in LinkCallers : setNotify(w)
  \/ \E w \in LinkCallers, id \in Gateways : removeNotify(w, id)
  \/ \E w \in LinkCallers : removeDelete(w)

SpecLinks == InitLinks /\ [][NextLinks]_vars

\* ------------------------------------------------------------ the claims
Returned == cm.pc \in {"rl_check", "rl_sleep", "rl_done"}
Quiet == spawned = 0 /\ (\A s \in Slots : oc[s].pc = "idle")
          /\ (\A t \in Setters : setter[t].pc = "idle")
PassOver(s) == oc[s].pc = "pass" /\ oc[s].todo = {}

\* C1: a SetGatewaySubscription call that finds the identity's membership already as
\* wanted returns without a broker call and with the registry as it found it; so does
\* the second of two consecutive calls with the same arguments; and a call that does
\* change the membership, with the broker accepting at once, makes exactly one broker
\* call.  (Read where the call is about to return, the lock still held.)
SetGatewaySubscriptionIdempotent ==
  \A t \in Setters :
    setter[t].pc = "ret" =>
      /\ ((setter[t].gw \in setter[t].entry) = setter[t].want) => setter[t].noop
      /\ setter[t].prev = <<setter[t].want, setter[t].gw>> => setter[t].noop
      /\ setter[t].noop => setter[t].calls = 0 /\ gateways = setter[t].entry
      /\ (~setter[t].noop /\ setter[t].fails = 0) => setter[t].calls = 1

\* C1 witness: the second of two consecutive SetGatewaySubscription(true, g) calls returns
SecondSubscribeReturns ==
  \E t \in Setters :
    /\ setter[t].pc = "ret"
    /\ setter[t].want
    /\ setter[t].prev = <<TRUE, setter[t].gw>>
    /\ setter[t].calls = 0

\* C2: unless the backend is stopped, a SetGatewaySubscription(want, g) call that has
\* to change the membership of g comes to return, with g in the registry iff want.
SubscriptionChangeNeverLost ==
  \A t \in Setters :
    (setter[t].pc = "loop")
      ~> (closed \/ (setter[t].pc = "ret" /\ (setter[t].gw \in gateways) = setter[t].want))

\* C3: with the connection up, every onConnected pass over and no
\* SetGatewaySubscription call in progress, the registry holds exactly the identities
\* the broker has a subscription for on this connection.
RegistryMatchesBroker == (conn = "up" /\ Quiet) => subs = gateways

\* C3 witness: such a state, with both identities registered and subscribed
BothSubscribedAndQuiet == conn = "up" /\ Quiet /\ gateways = Gateways /\ subs = Gateways

\* C4 as stated: the pass subscribes exactly the identities that were in the registry
\* when onConnected was entered.
ResubscribesRegistryAtFire ==
  \A s \in Slots : PassOver(s) => oc[s].tried = oc[s].atFire

\* C4 as amended: the pass subscribes exactly the identities in the registry when it
\* takes the read lock (the registry cannot change during the pass): it calls
\* subscribe for no other identity, an identity whose subscribe failed is the one the
\* pass stays at, and at its end every one of them has been subscribed; without a
\* failure the pass makes as many calls as the registry has identities.
ResubscribesRegistryAtLock ==
  \A s \in Slots :
    /\ oc[s].pc \in {"pass", "sleep"} =>
         /\ oc[s].atLock = gateways
         /\ oc[s].tried \subseteq oc[s].atLock
         /\ oc[s].okset = oc[s].atLock \ oc[s].todo
         /\ oc[s].pc = "sleep" => oc[s].cur \in oc[s].todo
    /\ PassOver(s) =>
         /\ oc[s].tried = oc[s].atLock
         /\ oc[s].okset = oc[s].atLock
         /\ oc[s].fails = 0 => oc[s].attempts = Cardinality(oc[s].atLock)

\* C4 witness: a pass over two identities ends after a failed subscribe was retried
PassOverAfterRetry ==
  \E s \in Slots : PassOver(s) /\ oc[s].atLock = Gateways /\ oc[s].fails > 0

\* C5: while connectLoop runs, every connect() it made has failed; once it has
\* returned, its last connect() succeeded and it made one call more than failed:
\* it returns on the first success and only then.
ConnectLoopReturnsOnFirstSuccess ==
  /\ cm.pc \in {"connect", "c_conn"} => cm.calls = cm.fails
  /\ Returned => cm.err = "nil" /\ cm.calls = cm.fails + 1

\* C5 witness: connectLoop returned after failing twice: three connect() calls
ReturnedAfterTwoFailures ==
  Returned /\ ~terminateOnConnectError /\ cm.fails = 2 /\ cm.calls = 3

\* C6: with terminateOnConnectError set, a connect() that failed was the only call of
\* its connectLoop and ended the process; connectLoop never returns after a failure.
FailFastOnConnectError ==
  terminateOnConnectError =>
    \/ cm.fails = 0 /\ ~terminated
    \/ cm.fails = 1 /\ cm.calls = 1 /\ terminated /\ cm.pc = "fatal"

\* C6 witness: the process ended in the connectLoop that reconnectLoop called
FatalInReconnectLoop == terminated /\ metric.reconnect > 0

\* C7: once closed is set, reconnectLoop neither disconnects nor connects.
StopWinsOverReconnect ==
  [][closed => ~(reconnectLoopDisconnect \/ connectNewClient)]_vars

\* C8: no client handle other than the one b.conn holds is connected or reconnecting.
OneLiveHandle == orphans = 0

\* C8 witness: a forced reconnect brought a new handle up after Stop
UpAfterForcedReconnect == metric.reconnect > 0 /\ conn = "up" /\ stoppc = "done"

\* C10: a step of a PublishEvent call changes nothing but the call's own state and,
\* on entry, the counter of its event kind, by one; the call makes at most one broker
\* publish call and returns the error of that call as it is.
PublishEventPropagatesError ==
  [][pub' # pub =>
       /\ UNCHANGED <<terminateOnConnectError, rotate, conn, subs, orphans, closed,
                      gateways, writer, readers, cm, started, terminated, stoppc, setter,
                      lastSet, spawned, oc, metric, failLimit, metricLimit,
                      downlinkFrameFunc, dl, gatewayConfigurationFunc,
                      gatewayCommandExecRequestFunc, rawPacketForwarderCommandFunc,
                      commandCounter, cmd, linkGateways, subscribeEventFunc, linkWriter,
                      linkCaller, notified, mutated, linkCalls>>
       /\ IF pub.pc = "idle"
            THEN eventCounter' = [eventCounter EXCEPT ![pub'.event] = @ + 1]
            ELSE eventCounter' = eventCounter
       /\ pub'.pc = "ret" => /\ pub'.calls <= 1
                             /\ pub'.err # "nil" => pub'.ret = pub'.err]_vars

\* C10 witness: the broker publish call failed with e2 and PublishEvent returns e2
PublishReturnsBrokerError == pub.pc = "ret" /\ pub.err = "e2" /\ pub.ret = "e2"

Received == IF dl.payload = <<>> THEN <<>> ELSE <<Unmarshal(dl.payload)>>

\* C9: the downlink handler is never handed a frame without items; a frame that arrives
\* with no items but with a top-level payload P and transmit parameters T is handed on,
\* when a handler is set, with the one item {P, T} and the gateway identity of T and is
\* otherwise as it arrived; a frame that arrives with no items and neither of the two
\* is dropped, the handler not called.
LegacyDownlinkNormalized ==
  /\ dl.outcome = "handled" <=> dl.handed # <<>>
  /\ dl.handed # <<>> => Len(dl.handed[1].Items) > 0
  /\ \A f \in DownlinkFrames :
       (Received = <<f>> /\ f.Items = <<>>) =>
         /\ (f.TxInfo # <<>> /\ f.PhyPayload # <<>>) =>
              /\ dl.outcome \in {"handled", "no_handler"}
              /\ dl.outcome = "handled" =>
                   dl.handed[1] = [Items |-> <<[PhyPayload |-> f.PhyPayload,
                                               TxInfo |-> f.TxInfo]>>,
                                   PhyPayload |-> f.PhyPayload,
                                   TxInfo |-> f.TxInfo,
                                   GatewayId |-> f.TxInfo[1].GatewayId]
         /\ (f.TxInfo = <<>> /\ f.PhyPayload = <<>>) => dl.outcome = "no_items"

\* C9 witness: a legacy frame for gateway 2, itself marked for gateway 1, was handed on
LegacyFrameHandled ==
  /\ dl.outcome = "handled"
  /\ Received # <<>>
  /\ Received[1].Items = <<>>
  /\ Received[1].GatewayId = <<1>>
  /\ dl.handed[1].GatewayId = <<2>>

Matches(topic, word) == HasSuffix(topic, word) \/ Contains(topic, "command=" \o word)
HandlerSet(kind) ==
  CASE kind = "down" -> downlinkFrameFunc
    [] kind = "config" -> gatewayConfigurationFunc
    [] kind = "exec" -> gatewayCommandExecRequestFunc
    [] kind = "raw" -> rawPacketForwarderCommandFunc
    [] OTHER -> FALSE
BackendUnchanged ==
  UNCHANGED <<conn, subs, orphans, closed, gateways, writer, readers, downlinkFrameFunc,
              gatewayConfigurationFunc, gatewayCommandExecRequestFunc,
              rawPacketForwarderCommandFunc>>

\* C11: the kind handleCommand takes a topic for is the first of down, config, exec,
\* raw whose word the topic ends with or whose "command=<word>" it contains, and
\* unknown when there is none: one kind for every topic.
ClassifyFirstMatch ==
  cmd.seen > 0 =>
    /\ cmd.kind \in Kinds \cup {"unknown"}
    /\ cmd.kind = "down" <=> Matches(cmd.topic, "down")
    /\ cmd.kind = "config" <=> ~Matches(cmd.topic, "down") /\ Matches(cmd.topic, "config")
    /\ cmd.kind = "exec" <=>
         /\ ~Matches(cmd.topic, "down") /\ ~Matches(cmd.topic, "config")
         /\ Matches(cmd.topic, "exec")
    /\ cmd.kind = "raw" <=>
         /\ ~Matches(cmd.topic, "down") /\ ~Matches(cmd.topic, "config")
         /\ ~Matches(cmd.topic, "exec") /\ Matches(cmd.topic, "raw")
    /\ cmd.kind = "unknown" <=> \A word \in Kinds : ~Matches(cmd.topic, word)

\* C11 witness: a topic that contains "command=down" and ends with "raw" was taken
\* for a downlink
EarlierKindWins ==
  /\ cmd.seen > 0
  /\ Contains(cmd.topic, "command=down")
  /\ HasSuffix(cmd.topic, "raw")
  /\ cmd.kind = "down"

\* C12 as stated: the topic "devices/gw-1234/commands/config" is unknown.
CommandsConfigIsUnknown ==
  (cmd.seen > 0 /\ cmd.topic = "devices/gw-1234/commands/config") => cmd.kind = "unknown"

\* C12 as amended: the topic "devices/gw-1234/commands/config", which ends with
\* "config" and does not end with "down" or contain "command=down", is a config command.
CommandsConfigIsConfig ==
  (cmd.seen > 0 /\ cmd.topic = "devices/gw-1234/commands/config") => cmd.kind = "config"

\* C12 witness: a message on that topic was handled as a configuration
CommandsConfigHandled ==
  /\ cmd.topic = "devices/gw-1234/commands/config"
  /\ cmd.kind = "config"
  /\ ~Contains(cmd.topic, "command=config")
  /\ cmd.outcome = "handled"

\* C13: a handleCommand call calls at most one handler; a handler it calls is the one
\* of the kind of the topic, is set, and is called after the payload was decoded; with
\* no handler set for the kind, a message that decodes (a downlink: with an item) is
\* dropped with no handler called and no error; the backend's state is unchanged.
AtMostOneHandler ==
  [][cmd' # cmd =>
       /\ Len(cmd'.invoked) <= 1
       /\ cmd'.invoked # <<>> =>
            /\ cmd'.invoked[1].kind = cmd'.kind
            /\ HandlerSet(cmd'.kind)
            /\ ~UnmarshalFails(cmd'.payload)
            /\ cmd'.outcome = "handled"
       /\ (cmd'.kind \in Kinds /\ ~HandlerSet(cmd'.kind) /\ ~UnmarshalFails(cmd'.payload)
             /\ (cmd'.kind = "down" => Len(Normalize(Unmarshal(cmd'.payload)).Items) > 0)) =>
            cmd'.invoked = <<>> /\ cmd'.outcome = "no_handler"
       /\ (cmd'.kind \in Kinds /\ HandlerSet(cmd'.kind) /\ ~UnmarshalFails(cmd'.payload)
             /\ (cmd'.kind = "down" => Len(Normalize(Unmarshal(cmd'.payload)).Items) > 0)) =>
            Len(cmd'.invoked) = 1
       /\ BackendUnchanged]_vars

\* C13 witness: an exec request was handed to the exec handler, the others being set too
ExecHandlerCalled ==
  /\ cmd.kind = "exec"
  /\ Len(cmd.invoked) = 1
  /\ downlinkFrameFunc /\ gatewayConfigurationFunc /\ rawPacketForwarderCommandFunc

\* C14: a message that does not decode, whose topic is of no kind, or that is a
\* downlink without items (and without the legacy fields) has no handler called; no
\* handleCommand call changes the connection, the lock, closed, the registry or the
\* handlers; and what a call does is determined by its message and the handlers set,
\* whatever arrived before.
BadMessage(m) ==
  \/ m.kind = "unknown"
  \/ UnmarshalFails(m.payload)
  \/ /\ m.kind = "down"
     /\ Unmarshal(m.payload).Items = <<>>
     /\ (Unmarshal(m.payload).TxInfo = <<>> \/ Unmarshal(m.payload).PhyPayload = <<>>)
MessageLocalFailure ==
  [][cmd' # cmd =>
       /\ BadMessage(cmd') => cmd'.invoked = <<>>
       /\ BackendUnchanged
       /\ cmd'.kind \in {"config", "exec", "raw"} => dl' = dl
       /\ (~BadMessage(cmd') /\ HandlerSet(cmd'.kind)) =>
            /\ Len(cmd'.invoked) = 1
            /\ cmd'.invoked[1].kind = cmd'.kind
            /\ cmd'.invoked[1].arg = IF cmd'.kind = "down"
                                       THEN <<Normalize(Unmarshal(cmd'.payload))>>
                                       ELSE cmd'.payload]_vars

\* C14 witness: a message was handed to its handler after one that was dropped
HandledAfterBadMessage ==
  /\ cmd.prev \in {"unmarshal_error", "unexpected", "no_items"}
  /\ cmd.outcome = "handled"
  /\ cmd.invoked # <<>>

\* C20: a handleCommand call adds one to the command counter of the kind of its topic
\* and to no other; for a topic of no kind it changes no counter.
CountsEveryKind ==
  [][cmd' # cmd =>
       commandCounter' = IF cmd'.kind \in Kinds
                           THEN [commandCounter EXCEPT ![cmd'.kind] = @ + 1]
                           ELSE commandCounter]_vars

\* C15: PublishEvent and Stop use the connection handle, and reconnectLoop reads
\* closed, only with the lock held: none of them does so while another goroutine
\* holds the lock in exclusive mode.
LockDiscipline ==
  [][(publishOk \/ publishError \/ StopDisconnect) => writer = "none"]_vars

\* C16: while a SetGatewaySubscription call is between its membership check and its
\* return, it holds the lock alone: no other SetGatewaySubscription call is past its
\* Lock(), no step of connect() or disconnect() is taken, no onConnected pass is
\* past its RLock(), and the registry changes only by the call's own update.
InFlight(t) == setter[t].pc \in {"loop", "sleep"}
SerialisedSubscriptionChanges ==
  [][\A t \in Setters :
       InFlight(t) =>
         /\ writer = t /\ readers = {}
         /\ \A u \in Setters \ {t} : setter[u].pc = "idle" /\ setter'[u] = setter[u]
         /\ ~(connectAuthError \/ connectNewClient \/ connectDialOk \/ connectDialError
               \/ reconnectLoopDisconnect)
         /\ cm.pc # "c_conn"
         /\ \A s \in Slots : oc[s].pc \in {"idle", "fired"} /\ oc'[s].pc \in {"idle", "fired"}
         /\ gateways' # gateways => setter'[t].pc = "ret"]_vars

\* C16 witness: a call sleeps between two tries while connect() and an onConnected
\* pass wait for the lock
RetryingWhileOthersWait ==
  \E t \in Setters :
    /\ setter[t].pc = "sleep"
    /\ cm.pc = "connect"
    /\ \E s \in Slots : oc[s].pc = "fired"

\* C17: at every step, a SetGatewaySubscription call that is retrying has made only
\* failed broker calls and the registry is as the call found it; the registry changes
\* only in the step in which the broker accepts the call's subscribe (unsubscribe), to
\* the registry with g added (removed); and a call that returns after changing the
\* membership has made one broker call more than failed.
RegistryFollowsBrokerSuccess ==
  [][/\ \A t \in Setters :
          /\ setter'[t].pc \in {"loop", "sleep"} =>
               /\ gateways' = setter'[t].entry
               /\ setter'[t].calls = setter'[t].fails
          /\ (setter'[t].pc = "ret" /\ ~setter'[t].noop) =>
               /\ setter'[t].calls = setter'[t].fails + 1
               /\ gateways' = IF setter'[t].want
                                THEN setter'[t].entry \cup {setter'[t].gw}
                                ELSE setter'[t].entry \ {setter'[t].gw}
     /\ gateways' # gateways =>
          \E t \in Setters :
            /\ setter[t].pc = "loop" /\ setter'[t].pc = "ret"
            /\ conn = "up"
            /\ (setter[t].gw \in subs') = setter[t].want
            /\ setter'[t].calls = setter[t].calls + 1]_vars

\* C17 witness: an unsubscribe that was refused and then accepted is about to return
RemovedAfterRetry ==
  \E t \in Setters :
    /\ setter[t].pc = "ret"
    /\ ~setter[t].want
    /\ setter[t].fails > 0
    /\ setter[t].gw \in setter[t].entry
    /\ setter[t].gw \notin gateways

\* C18: unless the backend is stopped or the process has ended, after reconnectLoop
\* has disconnected the handle the backend comes to hold a connected handle again.
ForcedReconnectCompletes ==
  (cm.pc = "connect" /\ conn = "closed" /\ ~closed) ~> (conn = "up" \/ closed \/ terminated)

NoLinkCall == \A w \in LinkCallers : linkCaller[w].pc = "idle"
Notified(id) == \E i \in 1..Len(notified) : notified[i][1] = id
LastNotified(id) ==
  notified[CHOOSE i \in 1..Len(notified) :
             /\ notified[i][1] = id
             /\ \A j \in (i + 1)..Len(notified) : notified[j][1] # id][2]

\* C19: with a callback installed and no set or remove call in progress, the
\* notifications are, one for one and in the same order, the writes to the map, one
\* per call, true for a set and false for a remove; and the last notification for an
\* identity is true exactly when get finds it.
NotificationsAgreeWithMembership ==
  (subscribeEventFunc /\ NoLinkCall) =>
    /\ notified = mutated
    /\ Len(notified) = linkCalls
    /\ \A id \in Gateways :
         Notified(id) => /\ LastNotified(id) <=> GetError(id) = "nil"
                         /\ ~LastNotified(id) <=> GetError(id) = "errGatewayDoesNotExist"
    /\ \A w \in LinkCallers :
         linkCaller[w].id # NoGateway =>
           linkCaller[w].err \in {"nil", "errGatewayDoesNotExist"}

\* C19 witness: after three calls one identity was last notified true and is found,
\* the other was last notified false and is not
OneLinkedOneUnlinked ==
  /\ subscribeEventFunc /\ NoLinkCall
  /\ Len(notified) = 3
  /\ \E a, b \in Gateways :
       /\ Notified(a) /\ LastNotified(a) /\ a \in linkGateways
       /\ Notified(b) /\ ~LastNotified(b) /\ b \notin linkGateways

====
